---- MODULE Spec2Model ----
(***************************************************************************)
(* ImageCompressor: the directory compression pipeline (withSource/main.py) *)
(* and the document download pipeline (withLinks/main.py).                  *)
(*                                                                          *)
(* A file name is a sequence of tokens, the stem followed by its dot        *)
(* suffixes: "a.jpg.tmp" is <<"a", ".jpg", ".tmp">>.  A path is a directory *)
(* relative to the root of its tree and a name.  A file system is a         *)
(* function from the paths that exist to the content stored there.          *)
(***************************************************************************)
EXTENDS Integers, Sequences, FiniteSets, TLC

VARIABLES
    env,        \* what exists on disk at start: source_isdir, docx_exists
    cfg,        \* withSource module constants: target_format, quality, threshold, drop
    src,        \* the source tree: path -> content
    out,        \* the output tree: path -> content
    pending,    \* files of the enumeration main() has not processed yet
    processed,  \* the files main() has processed and how each ended, in order
    last,       \* the record of the last loop iteration of main()
    pc,         \* position of withSource main()
    blocks,     \* withLinks: the regex matches of the document, in order
    linkfmt,    \* withLinks TARGET_FORMAT
    data,       \* withLinks: the mapping read_docx_data returned
    keys,       \* withLinks: the keys of data in insertion order
    pos,        \* withLinks main(): number of URLs handled over all categories
    saved,      \* withLinks: the files under the base output directory
    attempts,   \* withLinks: the calls of download_and_compress_image, in order
    lpc         \* position of withLinks main()

vars == <<env, cfg, src, out, pending, processed, last, pc,
          blocks, linkfmt, data, keys, pos, saved, attempts, lpc>>

srcVars == <<cfg, src, out, pending, processed, last, pc>>

linkVars == <<env, blocks, linkfmt, data, keys, pos, saved, attempts, lpc>>

-----------------------------------------------------------------------------
\* Bounds of the model.

\* Largest number of files in the source tree.
MaxFiles == 2

\* The encoder's result differs from the original size by at most this much.
MaxDelta == 1

\* Largest number of category blocks in the document.
MaxBlocks == 3

-----------------------------------------------------------------------------
\* withSource/main.py: module constants.

None == "None"

QUALITY == 85

AGGRESSIVE_DROP == 20

\* THRESHOLD = 1.2 * 1024 * 1024 = 1258291.2 bytes, kept in tenths of a byte.
THRESHOLD_TENTHS == 12582912

IMAGE_EXTENSIONS == {".jpg", ".jpeg", ".png", ".bmp", ".gif", ".tiff", ".webp"}

EXT_TO_FORMAT ==
    [e \in IMAGE_EXTENSIONS |->
        CASE e = ".jpg" -> "JPEG"
          [] e = ".jpeg" -> "JPEG"
          [] e = ".png" -> "PNG"
          [] e = ".bmp" -> "BMP"
          [] e = ".gif" -> "GIF"
          [] e = ".tiff" -> "TIFF"
          [] e = ".webp" -> "WEBP"]

-----------------------------------------------------------------------------
\* Strings.

\* str.lower() on the tokens the model uses.
lower(s) ==
    CASE s = ".JPG" -> ".jpg"
      [] s = ".PNG" -> ".png"
      [] s = ".TXT" -> ".txt"
      [] s = "WEBP" -> "webp"
      [] s = "PNG" -> "png"
      [] s = "WebP" -> "webp"
      [] s = "JPEG" -> "jpeg"
      [] OTHER -> s

\* str.upper() on the format names the model uses.
upper(s) ==
    CASE s = "webp" -> "WEBP"
      [] s = "WebP" -> "WEBP"
      [] s = "png" -> "PNG"
      [] s = "jpeg" -> "JPEG"
      [] OTHER -> s

\* f".{fmt.lower()}"
DotLower(fmt) ==
    CASE lower(fmt) = "webp" -> ".webp"
      [] lower(fmt) = "png" -> ".png"
      [] lower(fmt) = "jpeg" -> ".jpeg"

\* os.path.splitext on a file name: the last dot suffix is the extension.
splitext(name) ==
    IF Len(name) > 1
    THEN [base |-> SubSeq(name, 1, Len(name) - 1), ext |-> name[Len(name)]]
    ELSE [base |-> name, ext |-> ""]

\* base + ext
Concat(base, ext) ==
    IF ext = "" THEN base ELSE Append(base, ext)

-----------------------------------------------------------------------------
\* File systems.

Write(fs, p, c) ==
    [q \in DOMAIN fs \cup {p} |-> IF q = p THEN c ELSE fs[q]]

Remove(fs, p) ==
    [q \in DOMAIN fs \ {p} |-> fs[q]]

EmptyFs == [q \in {} |-> 0]

\* The bytes of a source file, of an encoder result, of an interrupted encode.
Original(p, n) == [kind |-> "original", of |-> p, size |-> n]

Encoded(p, fmt, n) == [kind |-> "encoded", of |-> p, fmt |-> fmt, size |-> n]

Partial(p) == [kind |-> "partial", of |-> p, size |-> 0]

\* temp_path = output_path + ".tmp"
TempPath(output_path) ==
    [dir |-> output_path.dir, name |-> Append(output_path.name, ".tmp")]

-----------------------------------------------------------------------------
\* compress_image_file

\* What can go wrong in one call: Image.open raises; img.save raises before it
\* opens the file; img.save raises after it opened (and truncated) the file.
Faults == {"none", "decode", "encode_early", "encode_partial"}

\* Mutant: a file of exactly the threshold size counts as large.
QualityFor_AtThreshold(c, orig_size) ==
    IF orig_size * 10 >= c.threshold_tenths
    THEN (IF c.quality - c.aggressive_drop > 1
          THEN c.quality - c.aggressive_drop ELSE 1)
    ELSE c.quality

\* q of the two-tier quality policy.
QualityFor(c, orig_size) ==
    IF orig_size * 10 > c.threshold_tenths
    THEN (IF c.quality - c.aggressive_drop > 1
          THEN c.quality - c.aggressive_drop ELSE 1)
    ELSE c.quality

\* save_kwargs
SaveKwargs(c, fmt, orig_size) ==
    IF fmt \in {"WEBP", "JPEG"}
    THEN [quality |-> QualityFor(c, orig_size)]
    ELSE IF fmt = "PNG" THEN [optimize |-> TRUE]
    ELSE EmptyFs

\* fmt, or "" when the extension maps to no format.
SaveFormat(c, input_path) ==
    IF c.target_format # None
    THEN upper(c.target_format)
    ELSE LET out_ext == lower(splitext(input_path.name).ext)
         IN IF out_ext \in DOMAIN EXT_TO_FORMAT THEN EXT_TO_FORMAT[out_ext] ELSE ""

\* Mutants of the size comparison: the comparison inverted; <= for <.
KeepCompressed_Inverted(comp_size, orig_size) ==
    comp_size > orig_size

KeepCompressed_OrEqual(comp_size, orig_size) ==
    comp_size <= orig_size

\* if comp_size < orig_size
KeepCompressed(comp_size, orig_size) ==
    comp_size < orig_size

\* Mutant: the else branch without os.remove(temp_path).
CompareAndPlace_KeepsTemp(fs, tree, input_path, output_path, fmt, comp_size) ==
    LET temp_path == TempPath(output_path)
        orig_size == tree[input_path].size
        saved_fs == Write(fs, temp_path, Encoded(input_path, fmt, comp_size))
    IN IF comp_size < orig_size
       THEN [fs |-> Write(Remove(saved_fs, temp_path), output_path, saved_fs[temp_path]),
             outcome |-> "compressed", raised |-> FALSE]
       ELSE [fs |-> Write(saved_fs, output_path, tree[input_path]),
             outcome |-> "original", raised |-> FALSE]

\* The body of the try block after img.save succeeded.
CompareAndPlace(fs, tree, input_path, output_path, fmt, comp_size) ==
    LET temp_path == TempPath(output_path)
        orig_size == tree[input_path].size
        saved_fs == Write(fs, temp_path, Encoded(input_path, fmt, comp_size))
    IN IF KeepCompressed(comp_size, orig_size)
       THEN [fs |-> Write(Remove(saved_fs, temp_path), output_path, saved_fs[temp_path]),
             outcome |-> "compressed", raised |-> FALSE]
       ELSE [fs |-> Remove(Write(saved_fs, output_path, tree[input_path]), temp_path),
             outcome |-> "original", raised |-> FALSE]

\* Mutant: the handler logs and raises again.
HandleFailure_Reraise(fs, temp_path) ==
    [fs |-> fs, outcome |-> "failed", raised |-> TRUE]

\* except Exception: the error is logged and swallowed; the file system is
\* left as the failing statement left it.
HandleFailure(fs, temp_path) ==
    [fs |-> fs, outcome |-> "failed", raised |-> FALSE]

\* compress_image_file(input_path, output_path): the file system it leaves and
\* the record of the call.
compress_image_file(c, fs, tree, input_path, output_path, fault, comp_size) ==
    LET fmt == SaveFormat(c, input_path)
        orig_size == tree[input_path].size
        temp_path == TempPath(output_path)
        kwargs == SaveKwargs(c, fmt, orig_size)
        res == IF fault = "decode" \/ fmt = "" \/ fault = "encode_early"
               THEN HandleFailure(fs, temp_path)
               ELSE IF fault = "encode_partial"
               THEN HandleFailure(Write(fs, temp_path, Partial(input_path)), temp_path)
               ELSE CompareAndPlace(fs, tree, input_path, output_path, fmt, comp_size)
    IN [fs |-> res.fs, raised |-> res.raised,
        call |-> [op |-> "compress", src |-> input_path, dest |-> output_path,
                  outcome |-> res.outcome, fault |-> fault, fmt |-> fmt,
                  save_kwargs |-> IF fault = "decode" \/ fmt = "" THEN EmptyFs ELSE kwargs,
                  orig_size |-> orig_size,
                  comp_size |-> IF res.outcome = "failed" THEN 0 ELSE comp_size,
                  before |-> fs]]

-----------------------------------------------------------------------------
\* main() of withSource

\* Mutant: the file is placed in OUTPUT_DIR itself, not in dest_dir.
DestPath_Flat(c, s) ==
    LET parts == splitext(s.name)
        ext_lower == lower(parts.ext)
    IN IF ext_lower \in IMAGE_EXTENSIONS
       THEN [dir |-> ".",
             name |-> Concat(parts.base,
                             IF c.target_format # None
                             THEN DotLower(c.target_format) ELSE ext_lower)]
       ELSE [dir |-> ".", name |-> Concat(parts.base, parts.ext)]

\* dest_path of one source file (lines 123-137).
DestPath(c, s) ==
    LET parts == splitext(s.name)
        ext_lower == lower(parts.ext)
    IN IF ext_lower \in IMAGE_EXTENSIONS
       THEN [dir |-> s.dir,
             name |-> Concat(parts.base,
                             IF c.target_format # None
                             THEN DotLower(c.target_format) ELSE ext_lower)]
       ELSE [dir |-> s.dir, name |-> Concat(parts.base, parts.ext)]

IsImage(s) ==
    lower(splitext(s.name).ext) \in IMAGE_EXTENSIONS

\* os.walk is top-down: the files of the root come before those of a
\* subdirectory; the order within a directory is the listing's.
NextInWalk(s) ==
    /\ s \in pending
    /\ s.dir = "." \/ \A t \in pending : t.dir # "."

NoCall ==
    [op |-> "none"]

\* shutil.copy2(src, dest_path) of main(), for a file that is not an image.
CopyCall(fs, s, d) ==
    [op |-> "copy", src |-> s, dest |-> d, outcome |-> "copied", before |-> fs]

\* The checks before the loop: missing source directory, empty tree.
MainStart ==
    /\ pc = "start"
    /\ pc' = IF ~env.source_isdir \/ DOMAIN src = {} THEN "aborted" ELSE "loop"
    /\ pending' = IF env.source_isdir THEN DOMAIN src ELSE {}
    /\ UNCHANGED <<cfg, src, out, processed, last>>
    /\ UNCHANGED linkVars

\* One iteration of the loop over an image file.
ProcessImage ==
    /\ pc = "loop"
    /\ \E s \in pending :
         /\ NextInWalk(s)
         /\ IsImage(s)
         /\ \E fault \in Faults :
              \E comp_size \in (src[s].size - MaxDelta)..(src[s].size + MaxDelta) :
                 LET r == compress_image_file(cfg, out, src, s, DestPath(cfg, s),
                                              fault, comp_size)
                 IN /\ out' = r.fs
                    /\ last' = r.call
                    /\ pc' = IF r.raised THEN "crashed" ELSE pc
                    /\ processed' = Append(processed,
                                            [src |-> s, outcome |-> r.call.outcome])
         /\ pending' = pending \ {s}
    /\ UNCHANGED <<cfg, src>>
    /\ UNCHANGED linkVars

\* One iteration of the loop over any other file.
ProcessOther ==
    /\ pc = "loop"
    /\ \E s \in pending :
         /\ NextInWalk(s)
         /\ ~IsImage(s)
         /\ out' = Write(out, DestPath(cfg, s), src[s])
         /\ last' = CopyCall(out, s, DestPath(cfg, s))
         /\ pending' = pending \ {s}
         /\ processed' = Append(processed, [src |-> s, outcome |-> "copied"])
    /\ UNCHANGED <<cfg, src, pc>>
    /\ UNCHANGED linkVars

\* The loop is over: "All files processed."
MainFinish ==
    /\ pc = "loop"
    /\ pending = {}
    /\ pc' = "done"
    /\ UNCHANGED <<cfg, src, out, pending, processed, last>>
    /\ UNCHANGED linkVars

-----------------------------------------------------------------------------
\* withLinks/main.py: read_docx_data

\* str.strip() on the category lines the model uses.
strip(line) ==
    CASE line = "Cats " -> "Cats"
      [] line = " Dogs" -> "Dogs"
      [] OTHER -> line

\* The URLs re.findall extracts from an array block: the items in straight or
\* curly quotes whose text starts with http:// or https://, in order.
IsHttp(text) ==
    text \in {"https://a/1.jpg", "http://a/2.jpg"}

RECURSIVE ExtractUrls(_)
ExtractUrls(array) ==
    IF array = <<>> THEN <<>>
    ELSE LET item == Head(array)
         IN IF item.quote \in {"straight", "curly"} /\ IsHttp(item.text)
            THEN <<item.text>> \o ExtractUrls(Tail(array))
            ELSE ExtractUrls(Tail(array))

\* Mutant: an entry that exists is kept (dict.setdefault).
StoreCategory_FirstWins(d, category, urls) ==
    [map |-> [k \in DOMAIN d.map \cup {category} |->
                 IF k \in DOMAIN d.map THEN d.map[k] ELSE urls],
     keys |-> IF category \in DOMAIN d.map THEN d.keys ELSE Append(d.keys, category)]

\* data[category] = urls, on a dict that keeps insertion order.
StoreCategory(d, category, urls) ==
    [map |-> [k \in DOMAIN d.map \cup {category} |->
                 IF k = category THEN urls ELSE d.map[k]],
     keys |-> IF category \in DOMAIN d.map THEN d.keys ELSE Append(d.keys, category)]

\* The loop over the matches, from the first to the n-th.
RECURSIVE ReadBlocks(_, _)
ReadBlocks(bs, n) ==
    IF n = 0 THEN [map |-> EmptyFs, keys |-> <<>>]
    ELSE LET d == ReadBlocks(bs, n - 1)
             category == strip(bs[n].category)
             urls == ExtractUrls(bs[n].array)
         IN IF urls # <<>> THEN StoreCategory(d, category, urls) ELSE d

read_docx_data(bs) ==
    ReadBlocks(bs, Len(bs))

-----------------------------------------------------------------------------
\* withLinks/main.py: download_and_compress_image and main

\* What can go wrong for one URL: requests.get raises, raise_for_status raises,
\* Image.open raises, img.save raises after it opened the file.
DownloadFaults == {"none", "request", "status", "decode", "encode_partial"}

\* filename = f"image_{idx}.{TARGET_FORMAT.lower()}" under the category folder.
SavePath(category, idx, fmt) ==
    [dir |-> category, stem |-> "image_", idx |-> idx, ext |-> lower(fmt)]

\* Mutant: the handler logs and raises again.
HandleDownloadFailure_Reraise(fs) ==
    [fs |-> fs, outcome |-> "failed", raised |-> TRUE]

\* except Exception: the error is logged and swallowed.
HandleDownloadFailure(fs) ==
    [fs |-> fs, outcome |-> "failed", raised |-> FALSE]

\* download_and_compress_image(url, save_path)
download_and_compress_image(fs, fmt, url, save_path, fault) ==
    IF fault \in {"request", "status", "decode"}
    THEN HandleDownloadFailure(fs)
    ELSE IF lower(fmt) \notin {"webp", "png"}
    THEN HandleDownloadFailure(fs)
    ELSE IF fault = "encode_partial"
    THEN HandleDownloadFailure(Write(fs, save_path, Partial(url)))
    ELSE [fs |-> Write(fs, save_path, Encoded(url, upper(lower(fmt)), 1)),
          outcome |-> "saved", raised |-> FALSE]

\* The category and the 1-based index of the k-th URL over all categories.
RECURSIVE Locate(_, _, _, _)
Locate(ks, d, ci, k) ==
    IF k <= Len(d[ks[ci]]) THEN [category |-> ks[ci], idx |-> k]
    ELSE Locate(ks, d, ci + 1, k - Len(d[ks[ci]]))

RECURSIVE TotalUrls(_, _, _)
TotalUrls(ks, d, ci) ==
    IF ci > Len(ks) THEN 0 ELSE Len(d[ks[ci]]) + TotalUrls(ks, d, ci + 1)

\* Lines 88-99: the document is missing, or nothing was extracted.
LinksStart ==
    /\ lpc = "start"
    /\ LET d == read_docx_data(blocks)
       IN IF ~env.docx_exists
          THEN /\ lpc' = "aborted"
               /\ UNCHANGED <<data, keys>>
          ELSE /\ data' = d.map
               /\ keys' = d.keys
               /\ lpc' = IF DOMAIN d.map = {} THEN "aborted" ELSE "loop"
    /\ UNCHANGED <<env, blocks, linkfmt, pos, saved, attempts>>
    /\ UNCHANGED srcVars

\* One iteration of the inner loop: the next URL of the current category.
DownloadNext ==
    /\ lpc = "loop"
    /\ pos < TotalUrls(keys, data, 1)
    /\ LET at == Locate(keys, data, 1, pos + 1)
           url == data[at.category][at.idx]
           save_path == SavePath(at.category, at.idx, linkfmt)
       IN \E fault \in DownloadFaults :
            LET r == download_and_compress_image(saved, linkfmt, url, save_path, fault)
            IN /\ saved' = r.fs
               /\ attempts' = Append(attempts,
                                [category |-> at.category, idx |-> at.idx, url |-> url,
                                 save_path |-> save_path, outcome |-> r.outcome])
               /\ lpc' = IF r.raised THEN "crashed" ELSE lpc
    /\ pos' = pos + 1
    /\ UNCHANGED <<env, blocks, linkfmt, data, keys>>
    /\ UNCHANGED srcVars

\* Both loops are over.
LinksFinish ==
    /\ lpc = "loop"
    /\ pos = TotalUrls(keys, data, 1)
    /\ lpc' = "done"
    /\ UNCHANGED <<env, blocks, linkfmt, data, keys, pos, saved, attempts>>
    /\ UNCHANGED srcVars

-----------------------------------------------------------------------------
\* The source trees, documents and configurations the model explores.

Names ==
    { <<"a", ".jpg">>, <<"a", ".JPG">>, <<"a", ".png">>,
      <<"a", ".txt">>, <<"a", ".TXT">>, <<"a", ".jpg", ".tmp">>, <<"README">> }

SourcePaths ==
    [dir : {"."}, name : Names] \cup [dir : {"d"}, name : {<<"a", ".jpg">>}]

\* 500 KB and 2 MB.
FileSizes == {512000, 2097152}

TreesOf(sizes, n) ==
    UNION { [S -> sizes] : S \in { T \in SUBSET SourcePaths : Cardinality(T) <= n } }

CodeConfig(tf) ==
    [target_format |-> tf, quality |-> QUALITY,
     threshold_tenths |-> THRESHOLD_TENTHS, aggressive_drop |-> AGGRESSIVE_DROP]

SourceIdle ==
    /\ cfg = CodeConfig(None)
    /\ src = EmptyFs
    /\ out = EmptyFs
    /\ pending = {}
    /\ processed = <<>>
    /\ last = NoCall
    /\ pc = "idle"

LinksIdle ==
    /\ blocks = <<>>
    /\ linkfmt = "webp"
    /\ data = EmptyFs
    /\ keys = <<>>
    /\ pos = 0
    /\ saved = EmptyFs
    /\ attempts = <<>>
    /\ lpc = "idle"

SourceStart(configs, trees) ==
    /\ cfg \in configs
    /\ \E t \in trees :
         /\ src = [p \in DOMAIN t |-> Original(p, t[p])]
         /\ env \in [source_isdir : IF DOMAIN t = {} THEN BOOLEAN ELSE {TRUE},
                     docx_exists : {FALSE}]
    /\ out = EmptyFs
    /\ pending = {}
    /\ processed = <<>>
    /\ last = NoCall
    /\ pc = "start"

\* The compression pipeline, with the constants of the source and each of the
\* documented target formats.
Init ==
    /\ SourceStart({ CodeConfig(tf) : tf \in {None, "webp", "png"} },
                   TreesOf(FileSizes, MaxFiles))
    /\ LinksIdle

Next ==
    \/ MainStart
    \/ ProcessImage
    \/ ProcessOther
    \/ MainFinish

Spec == Init /\ [][Next]_vars

\* The quality policy over other settings of the module constants, on trees of
\* one file whose size is at, just below or just above a threshold.
QualitySizes == {512000, 1048575, 1048576, 1048577, 1258291, 1258292, 2097152}

QualityConfigs ==
    [target_format : {None, "webp", "png", "jpeg"},
     quality : {1, 15, QUALITY, 100},
     threshold_tenths : {THRESHOLD_TENTHS, 10485760},
     aggressive_drop : {0, AGGRESSIVE_DROP, 100}]

InitQuality ==
    /\ SourceStart(QualityConfigs,
                   { t \in TreesOf(QualitySizes, 1) : DOMAIN t # {} })
    /\ LinksIdle

SpecQuality == InitQuality /\ [][Next]_vars

\* The download pipeline.
Categories == {"Cats", "Cats ", "Dogs"}

Url1 == [quote |-> "straight", text |-> "https://a/1.jpg"]

Url2 == [quote |-> "curly", text |-> "http://a/2.jpg"]

NotQuoted == [quote |-> "none", text |-> "https://a/1.jpg"]

NotHttp == [quote |-> "straight", text |-> "ftp://a/3.jpg"]

Arrays == { <<>>, <<NotQuoted, NotHttp>>, <<Url1>>, <<Url2, NotHttp, Url1>> }

Documents ==
    UNION { [1..n -> [category : Categories, array : Arrays]] : n \in 0..MaxBlocks }

InitLinks ==
    /\ SourceIdle
    /\ blocks \in Documents
    /\ env \in [source_isdir : {FALSE},
                docx_exists : IF blocks = <<>> THEN BOOLEAN ELSE {TRUE}]
    /\ linkfmt \in {"webp", "PNG", "jpeg"}
    /\ data = EmptyFs
    /\ keys = <<>>
    /\ pos = 0
    /\ saved = EmptyFs
    /\ attempts = <<>>
    /\ lpc = "start"

NextLinks ==
    \/ LinksStart
    \/ DownloadNext
    \/ LinksFinish

SpecLinks == InitLinks /\ [][NextLinks]_vars

-----------------------------------------------------------------------------
\* Properties of the compression pipeline.

\* p is where the file s of the source tree belongs in the output tree: same
\* directory, same base name, and the extension of s, lower-cased or replaced
\* by the target format when s is an image.
Mirrors(p, s) ==
    /\ p.dir = s.dir
    /\ splitext(p.name).base = splitext(s.name).base
    /\ splitext(p.name).ext =
         IF lower(splitext(s.name).ext) \notin IMAGE_EXTENSIONS THEN splitext(s.name).ext
         ELSE IF cfg.target_format = None THEN lower(splitext(s.name).ext)
         ELSE DotLower(cfg.target_format)

\* p is the mirrored path of s followed by ".tmp".
IsTempOf(p, s) ==
    /\ Len(p.name) > 1
    /\ p.name[Len(p.name)] = ".tmp"
    /\ Mirrors([dir |-> p.dir, name |-> SubSeq(p.name, 1, Len(p.name) - 1)], s)

\* C1 as stated: after every call of compress_image_file, whatever its
\* outcome, the file at the destination path is no larger than the input file.
C1_NeverGrowAnyOutcome ==
    last.op = "compress" /\ last.dest \in DOMAIN out
        => out[last.dest].size <= last.orig_size

\* C1 amended: a call of compress_image_file that does not fail leaves at the
\* destination path a file no larger than the input file; a call that fails
\* leaves the destination path as it found it.
C1_NeverGrow ==
    last.op = "compress" =>
        /\ last.outcome # "failed" =>
             /\ last.dest \in DOMAIN out
             /\ out[last.dest].size <= last.orig_size
        /\ last.outcome = "failed" =>
             /\ last.dest \in DOMAIN out <=> last.dest \in DOMAIN last.before
             /\ last.dest \in DOMAIN out => out[last.dest] = last.before[last.dest]

\* A call with a configured target format whose encoder result is larger than
\* the input, so that the original is kept.
C1_Witness ==
    /\ last.op = "compress"
    /\ cfg.target_format # None
    /\ last.outcome = "original"
    /\ last.comp_size > last.orig_size

\* C2 as stated: when main() has finished, the output tree holds exactly one
\* file per source file, at the destination path of that source file.
C2_ExactlyK ==
    pc = "done" =>
        /\ Cardinality(DOMAIN out) = Cardinality(DOMAIN src)
        /\ \A s \in DOMAIN src : \E p \in DOMAIN out : Mirrors(p, s)

\* C2 amended: when main() has finished, the output tree holds at most K files,
\* each at the mirrored path of a source file or at that path plus ".tmp";
\* every image whose call did not fail has a file at its mirrored path, and so
\* has every other file unless its path is the temporary path of an image.
C2_AtMostK ==
    pc = "done" =>
        /\ Cardinality(DOMAIN out) <= Cardinality(DOMAIN src)
        /\ \A p \in DOMAIN out : \E s \in DOMAIN src : Mirrors(p, s) \/ IsTempOf(p, s)
        /\ \A i \in 1..Len(processed) :
              processed[i].outcome \in {"compressed", "original"}
                  => \E p \in DOMAIN out : Mirrors(p, processed[i].src)
        /\ \A i \in 1..Len(processed) :
              processed[i].outcome = "copied"
                  => \/ processed[i].src \in DOMAIN out
                     \/ \E t \in DOMAIN src :
                           /\ lower(splitext(t.name).ext) \in IMAGE_EXTENSIONS
                           /\ IsTempOf(processed[i].src, t)

\* A finished run over two files that left one file: an image failed, or two
\* files shared a destination.
C2_Witness ==
    /\ pc = "done"
    /\ Cardinality(DOMAIN src) = 2
    /\ Cardinality(DOMAIN out) = 1

\* C3: when the encoder's result is not smaller than the original, the file at
\* the destination path is the source file byte for byte and the temporary
\* file is gone.
C3_BloatKeepsOriginal ==
    last.op = "compress" /\ last.fault = "none" /\ last.comp_size >= last.orig_size
        => /\ last.dest \in DOMAIN out
           /\ out[last.dest] = src[last.src]
           /\ TempPath(last.dest) \notin DOMAIN out

\* A call whose encoder result has exactly the size of the original.
C3_Witness ==
    /\ last.op = "compress"
    /\ last.fault = "none"
    /\ last.comp_size = last.orig_size
    /\ out[last.dest] = src[last.src]

\* C4 as stated: when main() has finished, every file that is not an image is
\* in the output tree under its own relative path and name, byte for byte.
C4_OtherFilesCopied ==
    pc = "done" =>
        \A s \in DOMAIN src :
            lower(splitext(s.name).ext) \notin IMAGE_EXTENSIONS
                => s \in DOMAIN out /\ out[s] = src[s]

\* C5: a failed call of compress_image_file never ends the run: the error
\* does not leave the call, the loop goes on over exactly the files not
\* processed yet, each of them can still be processed, and a finished run has
\* processed every file once.
C5_FailureDoesNotHalt ==
    /\ (\E i \in 1..Len(processed) : processed[i].outcome = "failed")
          => /\ pc \in {"loop", "done"}
             /\ pending = DOMAIN src \ { processed[i].src : i \in 1..Len(processed) }
             /\ pc = "loop" => ENABLED Next
    /\ pc = "done"
          => /\ { processed[i].src : i \in 1..Len(processed) } = DOMAIN src
             /\ Len(processed) = Cardinality(DOMAIN src)

\* A finished run in which a file was processed without failure after an
\* image had failed.
C5_Witness ==
    /\ pc = "done"
    /\ \E i, j \in 1..Len(processed) :
          /\ i < j
          /\ processed[i].outcome = "failed"
          /\ processed[j].outcome \in {"compressed", "original", "copied"}

\* C6 as stated: when compress_image_file has returned, there is no file at
\* the temporary path of its destination.
C6_NoTempLeft ==
    last.op = "compress" => TempPath(last.dest) \notin DOMAIN out

\* C7 as stated: with no target format, the destination path of every file is
\* its source path, character for character.
C7_SamePath ==
    last.op \in {"compress", "copy"} /\ cfg.target_format = None
        => last.dest = last.src

\* C7 amended: with no target format, the destination path of a file is its
\* source path with the extension lower-cased when the file is an image, and
\* its source path, character for character, when it is not.
C7_SamePathUpToCase ==
    last.op \in {"compress", "copy"} /\ cfg.target_format = None
        => /\ last.dest.dir = last.src.dir
           /\ splitext(last.dest.name).base = splitext(last.src.name).base
           /\ last.op = "compress"
                => splitext(last.dest.name).ext = lower(splitext(last.src.name).ext)
           /\ last.op = "copy" => last.dest = last.src

\* An image with an upper-case extension processed with no target format.
C7_Witness ==
    /\ cfg.target_format = None
    /\ last.op = "compress"
    /\ last.src.name = <<"a", ".JPG">>
    /\ last.dest.name = <<"a", ".jpg">>

\* C10: a WEBP or JPEG encode gets quality max(1, quality - aggressive_drop)
\* when the original is strictly larger than the threshold and the base
\* quality otherwise, and nothing else; a PNG encode gets optimize and no
\* quality; the quality is within 1..100 when the base quality is.
C10_QualityPolicy ==
    last.op = "compress" /\ last.fault # "decode" =>
        /\ last.fmt \in {"WEBP", "JPEG"} =>
             /\ DOMAIN last.save_kwargs = {"quality"}
             /\ last.orig_size * 10 > cfg.threshold_tenths
                  => \/ /\ cfg.quality - cfg.aggressive_drop >= 1
                        /\ last.save_kwargs.quality = cfg.quality - cfg.aggressive_drop
                     \/ /\ cfg.quality - cfg.aggressive_drop < 1
                        /\ last.save_kwargs.quality = 1
             /\ last.orig_size * 10 <= cfg.threshold_tenths
                  => last.save_kwargs.quality = cfg.quality
             /\ cfg.quality \in 1..100 => last.save_kwargs.quality \in 1..100
        /\ last.fmt = "PNG" =>
             /\ DOMAIN last.save_kwargs = {"optimize"}
             /\ last.save_kwargs.optimize = TRUE

\* A JPEG of exactly the threshold size encoded at the base quality, where the
\* drop would have gone below 1.
C10_Witness ==
    /\ last.op = "compress"
    /\ last.fmt = "JPEG"
    /\ last.fault = "none"
    /\ last.orig_size * 10 = cfg.threshold_tenths
    /\ cfg.quality - cfg.aggressive_drop < 1
    /\ last.save_kwargs.quality = cfg.quality

-----------------------------------------------------------------------------
\* Properties of the download pipeline.

\* read_docx_data has returned.
ReadDone ==
    lpc \in {"loop", "done", "aborted"} /\ env.docx_exists

\* The blocks whose category line, stripped, is c.
Occurrences(c) ==
    { i \in 1..Len(blocks) : strip(blocks[i].category) = c }

Last(S) ==
    CHOOSE i \in S : \A j \in S : j <= i

\* C8 as stated: a category of more than one block that is in the mapping maps
\* to the URLs of its last block.
C8_LastOccurrenceWins ==
    ReadDone =>
        \A c \in { strip(blocks[i].category) : i \in 1..Len(blocks) } :
            Cardinality(Occurrences(c)) > 1 /\ c \in DOMAIN data
                => data[c] = ExtractUrls(blocks[Last(Occurrences(c))].array)

\* C8 amended: a category of more than one block maps to the URLs of its last
\* block that has at least one extractable URL, and is not in the mapping when
\* it has no such block.
C8_LastNonEmptyWins ==
    ReadDone =>
        \A c \in { strip(blocks[i].category) : i \in 1..Len(blocks) } :
            Cardinality(Occurrences(c)) > 1 =>
                LET filled == { i \in Occurrences(c) : ExtractUrls(blocks[i].array) # <<>> }
                IN IF filled = {} THEN c \notin DOMAIN data
                   ELSE /\ c \in DOMAIN data
                        /\ data[c] = ExtractUrls(blocks[Last(filled)].array)

\* A category with two blocks of different URL lists, mapped to the later one.
C8_Witness ==
    /\ ReadDone
    /\ \E i, j \in 1..Len(blocks) :
          /\ i < j
          /\ j = Last(Occurrences(strip(blocks[i].category)))
          /\ strip(blocks[j].category) = strip(blocks[i].category)
          /\ ExtractUrls(blocks[i].array) # <<>>
          /\ ExtractUrls(blocks[j].array) # <<>>
          /\ ExtractUrls(blocks[j].array) # ExtractUrls(blocks[i].array)
          /\ data[strip(blocks[j].category)] = ExtractUrls(blocks[j].array)

\* Every URL of the mapping with its category and its 1-based index in the
\* category, in the order of the mapping.
RECURSIVE Flatten(_, _, _)
Flatten(ks, d, ci) ==
    IF ci > Len(ks) THEN <<>>
    ELSE [n \in 1..Len(d[ks[ci]]) |->
             [category |-> ks[ci], idx |-> n, url |-> d[ks[ci]][n]]]
         \o Flatten(ks, d, ci + 1)

\* C9: the calls of download_and_compress_image are the URLs of the mapping in
\* order, each once, whatever failed before; the n-th URL of a category goes to
\* <category>/image_<n>.<ext> and is there when its call succeeded; a failure
\* never ends the run, which can always go on to the next URL.
C9_FailuresAreIsolated ==
    /\ lpc # "crashed"
    /\ lpc \in {"loop", "done"} =>
          LET e == Flatten(keys, data, 1)
          IN /\ Len(attempts) <= Len(e)
             /\ \A k \in 1..Len(attempts) :
                   /\ attempts[k].category = e[k].category
                   /\ attempts[k].idx = e[k].idx
                   /\ attempts[k].url = e[k].url
                   /\ attempts[k].save_path =
                        [dir |-> e[k].category, stem |-> "image_", idx |-> e[k].idx,
                         ext |-> lower(linkfmt)]
                   /\ attempts[k].outcome = "saved"
                        => /\ attempts[k].save_path \in DOMAIN saved
                           /\ saved[attempts[k].save_path].kind = "encoded"
                           /\ saved[attempts[k].save_path].of = e[k].url
             /\ lpc = "done" => Len(attempts) = Len(e)
             /\ lpc = "loop" => ENABLED NextLinks

\* A finished run in which the first URL of a category failed and the second
\* was saved as image_2.
C9_Witness ==
    /\ lpc = "done"
    /\ \E k \in 1..(Len(attempts) - 1) :
          /\ attempts[k].outcome = "failed"
          /\ attempts[k].idx = 1
          /\ attempts[k + 1].outcome = "saved"
          /\ attempts[k + 1].category = attempts[k].category
          /\ attempts[k + 1].save_path.idx = 2
          /\ attempts[k + 1].save_path \in DOMAIN saved

====
